---- MODULE Spec2Model ----
(***************************************************************************)
(* State machine of the SETEC student service (FastAPI + SQLAlchemy):      *)
(* src/alunos.py (the five handlers), src/models.py (table AlunoDB and     *)
(* payload model Aluno) and src/database.py (SessionLocal, get_db).        *)
(*                                                                         *)
(* The table "alunos" is the only shared state.  A request is a process    *)
(* that acquires a session (get_db), runs its handler one database         *)
(* statement at a time, and releases the session (get_db's finally).       *)
(*   Spec        the requests are served one after the other;              *)
(*   SpecWorkers the requests are served concurrently (several worker      *)
(*               processes on the same database): the statements of        *)
(*               different requests interleave freely.                     *)
(***************************************************************************)
EXTENDS Integers, Sequences, FiniteSets, TLC

\* ------------------------------------------------------------------ bounds
NumReq == 2        \* requests in flight at the same time
MaxId  == 2        \* cap on the AUTO_INCREMENT counter of alunos.id

Req        == 1..NumReq
SessionIds == 1..NumReq

\* ------------------------------------------------------------------ inputs
RAs   == {"RA001", "RA002"}
Nomes == {"Ana", "Bia"}
\* Email addresses as character sequences: a plain one, one with upper-case
\* letters in both parts, and one without "@".
RawEmails == { <<"a", "@", "x", ".", "c">>,
               <<"B", "@", "X", ".", "c">>,
               <<"a", "x", ".", "c">> }

\* The request body (JSON for the pydantic model Aluno) before validation.
Bodies == [nome : Nomes, email : RawEmails, ra : RAs]
NoBody == [nome |-> "", email |-> <<>>, ra |-> ""]

\* Python's None for an ORM object / a row (id 0 is never assigned).
NoneRow == [id |-> 0, nome |-> "", email |-> <<>>, ra |-> ""]

VARIABLES
    store,      \* table alunos: the committed rows [id, nome, email, ra]
    autoinc,    \* next value of the AUTO_INCREMENT primary key (ids may be skipped)
    pc,         \* per request: idle, call, commit, refresh, exit
    req,        \* per request: the handler's arguments [op, ra (path), body]
    obj,        \* per request: the handler's ORM object (aluno / aluno_db)
    status,     \* per request: HTTP status of the response (0: none yet)
    resp,       \* per request: response body, a sequence of Aluno objects
    sess,       \* per request: the session get_db yielded (0: none)
    open,       \* the sessions that are open
    pending,    \* per session: the unflushed change it holds
    criado      \* history: per RA, the body of the Create that stored the
                \* row, while no Update or Delete of that RA has committed

vars == <<store, autoinc, pc, req, obj, status, resp, sess, open, pending, criado>>

\* ------------------------------------------------------- models.py: Aluno
Lower(c) == CASE c = "A" -> "a" [] c = "B" -> "b" [] c = "C" -> "c"
              [] c = "X" -> "x" [] OTHER -> c

AtSigns(v) == {i \in 1..Len(v) : v[i] = "@"}

\* EmailStr accepts local@domain with a non-empty local part and a domain
\* that has a period inside it.
IsEmail(v) ==
    /\ Cardinality(AtSigns(v)) = 1
    /\ LET at == CHOOSE i \in AtSigns(v) : TRUE
       IN  /\ at > 1
           /\ at < Len(v)
           /\ v[at + 1] # "."
           /\ v[Len(v)] # "."
           /\ \E i \in (at + 2)..(Len(v) - 1) : v[i] = "."

\* Faulty variant of the next definition: the value as given.
EmailStrKeep(v) == v

\* The validated value of an EmailStr field: the local part as given, the
\* domain in lower case.
EmailStr(v) ==
    LET at == CHOOSE i \in AtSigns(v) : TRUE
    IN  [i \in 1..Len(v) |-> IF i > at THEN Lower(v[i]) ELSE v[i]]

\* Aluno(nome, email, ra) validates: nome and ra are any str.
ValidBody(b) == IsEmail(b.email)

\* response_model=Aluno with orm_mode: the fields nome, email and ra of the
\* ORM object, validated again; the column id is not a field of Aluno.
AlunoFromOrm(row) ==
    [nome |-> row.nome, email |-> EmailStr(row.email), ra |-> row.ra]

\* ----------------------------------------------------- models.py: AlunoDB
Ids(rows)    == {r.id : r \in rows}
RasOf(rows)  == {r.ra : r \in rows}

\* Faulty variant of the next definition: no unique index.
IntegrityErrorNever(rows, row) == FALSE

\* unique=True on column ra: the INSERT of row fails with IntegrityError.
IntegrityError(rows, row) == \E r \in rows : r.ra = row.ra

\* id = Column(Integer, primary_key=True): the store assigns the key from
\* the table's AUTO_INCREMENT counter.
AssignedId(rows, counter) == counter

\* AlunoDB(nome=aluno.nome, email=aluno.email, ra=aluno.ra) with the id the
\* store assigns at the INSERT.
NewRow(b, id) == [id |-> id, nome |-> b.nome, email |-> EmailStr(b.email), ra |-> b.ra]

\* Faulty variant of the next definition: no filter.
QueryFirstAny(rows, ra) ==
    IF rows = {} THEN NoneRow ELSE CHOOSE r \in rows : TRUE

\* db.query(AlunoDB).filter(AlunoDB.ra == ra).first()
QueryFirst(rows, ra) ==
    IF \E r \in rows : r.ra = ra
    THEN CHOOSE r \in rows : r.ra = ra
    ELSE NoneRow

\* The row with primary key id (db.refresh reads it back), or None.
RowById(rows, id) ==
    IF \E r \in rows : r.id = id
    THEN CHOOSE r \in rows : r.id = id
    ELSE NoneRow

\* db.query(AlunoDB).all(): every row, in primary-key order.
RECURSIVE ById(_)
ById(rows) ==
    IF rows = {} THEN <<>>
    ELSE LET r == CHOOSE x \in rows : \A y \in rows : x.id <= y.id
         IN  <<r>> \o ById(rows \ {r})

RECURSIVE MapAluno(_)
MapAluno(s) == IF s = <<>> THEN <<>> ELSE <<AlunoFromOrm(Head(s))>> \o MapAluno(Tail(s))

\* Faulty variant of the next definition: one row short.
QueryAllButLast(rows) ==
    LET s == ById(rows) IN IF s = <<>> THEN s ELSE SubSeq(s, 1, Len(s) - 1)

QueryAll(rows) == ById(rows)

\* aluno.nome = ...; aluno.email = ...: the unit of work writes the columns
\* whose value differs from the loaded one (UPDATE ... WHERE id = o.id).
Dirty(o, b) == o.nome # b.nome \/ o.email # EmailStr(b.email)

\* Faulty variant of the next definition: the body's ra is written too.
UpdatedRowWithRa(cur, o, b) ==
    [cur EXCEPT !.nome = b.nome, !.email = EmailStr(b.email), !.ra = b.ra]

UpdatedRow(cur, o, b) ==
    [cur EXCEPT !.nome  = IF o.nome # b.nome THEN b.nome ELSE @,
                !.email = IF o.email # EmailStr(b.email) THEN EmailStr(b.email) ELSE @]

\* Faulty variant of the next definition: DELETE without WHERE.
DeleteRowsAll(rows, o) == {}

\* db.delete(aluno); the flush runs DELETE ... WHERE id = o.id.
DeleteRows(rows, o) == {r \in rows : r.id # o.id}

\* --------------------------------------------------- database.py: get_db
\* SessionLocal(): a new Session object, distinct from every open one.
SessionLocal(opened) == CHOOSE s \in SessionIds : s \notin opened /\
                           \A t \in SessionIds \ opened : s <= t

\* Faulty variant of the next definition: close only after a 200.
FinallyOnSuccessOnly(st) == st = 200

\* try: yield db  finally: db.close() -- the release runs on every exit.
Finally(st) == TRUE

\* ------------------------------------------------------------------- Init
Init ==
    /\ store = {}
    /\ autoinc = 1
    /\ pc = [p \in Req |-> "idle"]
    /\ req = [p \in Req |-> [op |-> "", ra |-> "", body |-> NoBody]]
    /\ obj = [p \in Req |-> NoneRow]
    /\ status = [p \in Req |-> 0]
    /\ resp = [p \in Req |-> <<>>]
    /\ sess = [p \in Req |-> 0]
    /\ open = {}
    /\ pending = [s \in SessionIds |-> "none"]
    /\ criado = [r \in RAs |-> NoBody]

\* ------------------------------------------------------------ the requests
NoReq == [op |-> "", ra |-> "", body |-> NoBody]

\* The handler returns or raises: its payload argument and its locals are
\* gone, the response (status and body) is what is left of the call.
Return(p, st, body) ==
    /\ pc' = [pc EXCEPT ![p] = "exit"]
    /\ status' = [status EXCEPT ![p] = st]
    /\ resp' = [resp EXCEPT ![p] = body]
    /\ req' = [req EXCEPT ![p].body = NoBody]
    /\ obj' = [obj EXCEPT ![p] = NoneRow]

\* Faulty variant of the next definition: no except clause.
ConflictUnhandled(p) ==
    /\ Return(p, 500, <<>>)
    /\ pending' = [pending EXCEPT ![sess[p]] = "new"]

\* except IntegrityError: db.rollback(); raise HTTPException(status_code=400)
Conflict(p) ==
    /\ Return(p, 400, <<>>)
    /\ pending' = [pending EXCEPT ![sess[p]] = "none"]

\* The requests a client can send: the five routes with their path
\* parameter and payload.
Requests ==
         [op : {"criar"}, ra : {""}, body : Bodies]
    \cup [op : {"listar"}, ra : {""}, body : {NoBody}]
    \cup [op : {"obter", "deletar"}, ra : RAs, body : {NoBody}]
    \cup [op : {"atualizar"}, ra : RAs, body : Bodies]

\* Creates admitted and not yet past their INSERT.
CreatesWaiting == Cardinality({q \in Req : pc[q] = "call" /\ req[q].op = "criar"})

\* A request arrives: FastAPI resolves Depends(get_db), which opens a
\* session, and validates the body against Aluno; a body that fails the
\* validation is answered 422 without calling the handler.
Arrive(p) ==
    /\ pc[p] = "idle"
    /\ open # SessionIds
    /\ \E r \in Requests :
         /\ r.op = "criar" => autoinc + CreatesWaiting <= MaxId
         /\ IF r.op \in {"criar", "atualizar"} /\ ~ValidBody(r.body)
            THEN /\ pc' = [pc EXCEPT ![p] = "exit"]
                 /\ status' = [status EXCEPT ![p] = 422]
                 /\ req' = [req EXCEPT ![p] = [r EXCEPT !.body = NoBody]]
            ELSE /\ pc' = [pc EXCEPT ![p] = "call"]
                 /\ req' = [req EXCEPT ![p] = r]
                 /\ UNCHANGED status
    /\ LET s == SessionLocal(open)
       IN  /\ sess' = [sess EXCEPT ![p] = s]
           /\ open' = open \cup {s}
    /\ UNCHANGED <<store, autoinc, obj, resp, pending, criado>>

\* criar_aluno: db.add(aluno_db); db.commit().  The INSERT either stores the
\* row under a new id or fails on the unique index of ra; the handler then
\* rolls back and raises HTTPException(400).  The refused INSERT had its id
\* allocated before the index check: whether the counter keeps the advance
\* depends on the storage engine (InnoDB keeps it, the id is lost), so both
\* outcomes are allowed.
CriarCommit(p) ==
    /\ pc[p] = "call" /\ req[p].op = "criar"
    /\ LET row == NewRow(req[p].body, AssignedId(store, autoinc))
       IN  IF IntegrityError(store, row)
           THEN /\ Conflict(p)
                /\ autoinc' \in {autoinc, autoinc + 1}
                /\ UNCHANGED <<store, criado>>
           ELSE /\ store' = store \cup {row}
                /\ autoinc' = row.id + 1
                /\ obj' = [obj EXCEPT ![p] = row]
                /\ criado' = [criado EXCEPT ![row.ra] = req[p].body]
                /\ pc' = [pc EXCEPT ![p] = "refresh"]
                /\ UNCHANGED <<req, status, resp, pending>>
    /\ UNCHANGED <<sess, open>>

\* db.refresh(obj) and the return: the row is read back by primary key; if
\* it is gone the refresh raises InvalidRequestError, which nothing catches.
Refresh(p) ==
    /\ pc[p] = "refresh"
    /\ LET cur == RowById(store, obj[p].id)
       IN  IF cur = NoneRow
           THEN Return(p, 500, <<>>)
           ELSE Return(p, 200, <<AlunoFromOrm(cur)>>)
    /\ UNCHANGED <<store, autoinc, sess, open, pending, criado>>

CriarRefresh(p) == req[p].op = "criar" /\ Refresh(p)

\* listar_alunos: return db.query(AlunoDB).all()
ListarAlunos(p) ==
    /\ pc[p] = "call" /\ req[p].op = "listar"
    /\ Return(p, 200, MapAluno(QueryAll(store)))
    /\ UNCHANGED <<store, autoinc, sess, open, pending, criado>>

\* raise HTTPException(status_code=404, ...)
NotFound(p) == Return(p, 404, <<>>)

\* obter_aluno
ObterAluno(p) ==
    /\ pc[p] = "call" /\ req[p].op = "obter"
    /\ LET aluno == QueryFirst(store, req[p].ra)
       IN  IF aluno = NoneRow
           THEN NotFound(p)
           ELSE Return(p, 200, <<AlunoFromOrm(aluno)>>)
    /\ UNCHANGED <<store, autoinc, sess, open, pending, criado>>

\* atualizar_aluno and deletar_aluno: the lookup
Query(p) ==
    /\ pc[p] = "call"
    /\ LET aluno == QueryFirst(store, req[p].ra)
       IN  IF aluno = NoneRow
           THEN NotFound(p)
           ELSE /\ obj' = [obj EXCEPT ![p] = aluno]
                /\ pc' = [pc EXCEPT ![p] = "commit"]
                /\ UNCHANGED <<req, status, resp>>
    /\ UNCHANGED <<store, autoinc, sess, open, pending, criado>>

AtualizarQuery(p) == req[p].op = "atualizar" /\ Query(p)
DeletarQuery(p)   == req[p].op = "deletar" /\ Query(p)

\* atualizar_aluno: the two assignments and db.commit().  The flush runs the
\* UPDATE only when a column changed; an UPDATE that matches no row raises
\* StaleDataError, which nothing catches.
AtualizarCommit(p) ==
    /\ pc[p] = "commit" /\ req[p].op = "atualizar"
    /\ LET cur == RowById(store, obj[p].id)
           b   == req[p].body
       IN  IF Dirty(obj[p], b) /\ cur = NoneRow
           THEN /\ Return(p, 500, <<>>)
                /\ pending' = [pending EXCEPT ![sess[p]] = "dirty"]
                /\ UNCHANGED store
           ELSE /\ store' = IF Dirty(obj[p], b)
                            THEN (store \ {cur}) \cup {UpdatedRow(cur, obj[p], b)}
                            ELSE store
                /\ pc' = [pc EXCEPT ![p] = "refresh"]
                /\ UNCHANGED <<req, obj, status, resp, pending>>
    /\ criado' = [criado EXCEPT ![req[p].ra] = NoBody]
    /\ UNCHANGED <<autoinc, sess, open>>

AtualizarRefresh(p) == req[p].op = "atualizar" /\ Refresh(p)

\* deletar_aluno: db.delete(aluno); db.commit(); return aluno.  A DELETE
\* that matches no row only warns.  The deleted object left the identity
\* map at the flush, so the commit does not expire it: the response is
\* built from the values the lookup loaded.
DeletarCommit(p) ==
    /\ pc[p] = "commit" /\ req[p].op = "deletar"
    /\ store' = DeleteRows(store, obj[p])
    /\ Return(p, 200, <<AlunoFromOrm(obj[p])>>)
    /\ criado' = [criado EXCEPT ![req[p].ra] = NoBody]
    /\ UNCHANGED <<autoinc, sess, open, pending>>

\* get_db after the yield: db.close() ends the session and drops whatever
\* it still holds.  The response has gone out and the request is over.
Exit(p) ==
    /\ pc[p] = "exit"
    /\ pc' = [pc EXCEPT ![p] = "idle"]
    /\ IF Finally(status[p])
       THEN /\ open' = open \ {sess[p]}
            /\ pending' = [pending EXCEPT ![sess[p]] = "none"]
       ELSE UNCHANGED <<open, pending>>
    /\ status' = [status EXCEPT ![p] = 0]
    /\ resp' = [resp EXCEPT ![p] = <<>>]
    /\ sess' = [sess EXCEPT ![p] = 0]
    /\ req' = [req EXCEPT ![p] = NoReq]
    /\ UNCHANGED <<store, autoinc, obj, criado>>

\* No other request is in flight.
Alone(p) == \A q \in Req \ {p} : pc[q] = "idle"

\* Requests served one after the other.
Next ==
    \E p \in Req :
        \/ Alone(p) /\ Arrive(p)
        \/ Alone(p) /\ CriarCommit(p)
        \/ Alone(p) /\ CriarRefresh(p)
        \/ Alone(p) /\ ListarAlunos(p)
        \/ Alone(p) /\ ObterAluno(p)
        \/ Alone(p) /\ AtualizarQuery(p)
        \/ Alone(p) /\ AtualizarCommit(p)
        \/ Alone(p) /\ AtualizarRefresh(p)
        \/ Alone(p) /\ DeletarQuery(p)
        \/ Alone(p) /\ DeletarCommit(p)
        \/ Alone(p) /\ Exit(p)

\* Requests served concurrently.
NextWorkers ==
    \E p \in Req :
        \/ Arrive(p)
        \/ CriarCommit(p)
        \/ CriarRefresh(p)
        \/ ListarAlunos(p)
        \/ ObterAluno(p)
        \/ AtualizarQuery(p)
        \/ AtualizarCommit(p)
        \/ AtualizarRefresh(p)
        \/ DeletarQuery(p)
        \/ DeletarCommit(p)
        \/ Exit(p)

Spec        == Init /\ [][Next]_vars
SpecWorkers == Init /\ [][NextWorkers]_vars

\* ------------------------------------------------------------- the claims
\* The steps of request p (its first, second and third statement), told by
\* its position before and after.
FirstOf(p, op)  == pc[p] = "call" /\ req[p].op = op /\ pc'[p] # "call"
SecondOf(p, op)  == pc[p] = "commit" /\ req[p].op = op /\ pc'[p] # "commit"
RefreshOf(p, op) == pc[p] = "refresh" /\ req[p].op = op /\ pc'[p] # "refresh"

\* The response body built from a stored row, field by field.
Shown(row) == [nome |-> row.nome, email |-> row.email, ra |-> row.ra]

\* e with the characters after its "@" in lower case.
DomainLowered(e) ==
    [i \in 1..Len(e) |-> IF \E j \in 1..(i - 1) : e[j] = "@" THEN Lower(e[i]) ELSE e[i]]

\* C1: in every state reachable by any interleaving of concurrent Create,
\* Update and Delete requests, no two stored records have the same RA.
C1_UniqueRa == \A a, b \in store : a.ra = b.ra => a = b

\* Two Creates of the same RA were in flight together: one is stored and
\* about to refresh, the other was refused.
C1_Witness ==
    \E p, q \in Req :
        /\ pc[p] = "refresh" /\ req[p].op = "criar"
        /\ pc[q] = "exit" /\ req[q].op = "criar" /\ status[q] = 400
        /\ store = {obj[p]}

\* C2: a Create whose RA a stored record already has ends with status 400
\* and leaves the table exactly as it was; nothing stays pending.
C2_ConflictLeavesStore ==
    [][\A p \in Req :
          (FirstOf(p, "criar") /\ req[p].body.ra \in RasOf(store))
          => /\ pc'[p] = "exit" /\ status'[p] = 400 /\ resp'[p] = <<>>
             /\ store' = store
             /\ pending'[sess[p]] = "none"]_vars

C2_Witness ==
    \E p \in Req : pc[p] = "exit" /\ req[p].op = "criar" /\ status[p] = 400
                    /\ store # {}

\* C3: a Create with an RA no stored record has adds exactly one record,
\* with the submitted name, email (as validated) and RA, under a non-null
\* identifier that no stored record has, and returns 200 and a record that
\* carries that identifier.
C3_Claim ==
    [][\A p \in Req :
          /\ (FirstOf(p, "criar") /\ req[p].body.ra \notin RasOf(store))
             => \E row \in store' :
                  /\ store' = store \cup {row} /\ row \notin store
                  /\ row.id # 0 /\ row.id \notin Ids(store)
                  /\ row.nome = req[p].body.nome
                  /\ row.email = DomainLowered(req[p].body.email)
                  /\ row.ra = req[p].body.ra
                  /\ pc'[p] = "refresh" /\ obj'[p] = row
          /\ RefreshOf(p, "criar")
             => /\ status'[p] = 200
                /\ Len(resp'[p]) = 1
                /\ resp'[p][1].nome = req[p].body.nome
                /\ resp'[p][1].email = DomainLowered(req[p].body.email)
                /\ resp'[p][1].ra = req[p].body.ra
                /\ "id" \in DOMAIN resp'[p][1]
                /\ resp'[p][1].id = obj[p].id]_vars

\* C4: Get, Update and Delete of an RA no stored record has end with 404
\* and leave the table unchanged.
C4_NotFound ==
    [][\A p \in Req : \A op \in {"obter", "atualizar", "deletar"} :
          (FirstOf(p, op) /\ req[p].ra \notin RasOf(store))
          => /\ pc'[p] = "exit" /\ status'[p] = 404 /\ resp'[p] = <<>>
             /\ store' = store]_vars

\* An Update was answered 404 while the other RA was stored.
C4_Witness ==
    \E p \in Req :
        /\ pc[p] = "exit" /\ status[p] = 404 /\ req[p].op = "atualizar"
        /\ store # {} /\ req[p].ra \notin RasOf(store)

\* C5: an Update of an existing RA r overwrites the name and the email of
\* the record of r and nothing else (its id and RA stay, whatever RA the
\* body carries; every other record stays) and returns 200 with the new
\* name and the new (validated) email.
C5_UpdateFrame ==
    [][\A p \in Req :
          /\ (FirstOf(p, "atualizar") /\ req[p].ra \in RasOf(store))
             => pc'[p] = "commit" /\ store' = store
          /\ SecondOf(p, "atualizar")
             => \E old \in store :
                  /\ old.ra = req[p].ra
                  /\ pc'[p] = "refresh"
                  /\ store' = (store \ {old}) \cup
                        {[id    |-> old.id,
                          nome  |-> req[p].body.nome,
                          email |-> DomainLowered(req[p].body.email),
                          ra    |-> old.ra]}
          /\ RefreshOf(p, "atualizar")
             => /\ status'[p] = 200
                /\ resp'[p] = <<[nome  |-> req[p].body.nome,
                                 email |-> DomainLowered(req[p].body.email),
                                 ra    |-> req[p].ra]>>
                /\ store' = store]_vars

\* An Update whose body names the other RA went through, with two records
\* stored.
C5_Witness ==
    \E p \in Req :
        /\ pc[p] = "refresh" /\ req[p].op = "atualizar"
        /\ req[p].body.ra # req[p].ra
        /\ Cardinality(store) = 2
        /\ \E r \in store : r.ra = req[p].ra /\ r.nome = "Bia"
                              /\ r.email = <<"B", "@", "x", ".", "c">>

\* C6: a Delete of an existing RA r returns 200 with the name, email and RA
\* the record had, removes that record and no other, and from then on a
\* Get of r returns 404 until a Create of r succeeds.
C6_DeleteThenGone ==
    [][/\ \A p \in Req :
            /\ (FirstOf(p, "deletar") /\ req[p].ra \in RasOf(store))
               => pc'[p] = "commit" /\ store' = store
            /\ SecondOf(p, "deletar")
               => \E old \in store :
                    /\ old.ra = req[p].ra
                    /\ status'[p] = 200
                    /\ resp'[p] = <<Shown(old)>>
                    /\ store' = store \ {old}
                    /\ req[p].ra \notin RasOf(store')
            /\ (FirstOf(p, "obter") /\ req[p].ra \notin RasOf(store))
               => status'[p] = 404
       /\ \A r \in RasOf(store') \ RasOf(store) :
            \E p \in Req : FirstOf(p, "criar") /\ req[p].body.ra = r
                            /\ pc'[p] = "refresh"]_vars

\* A Delete returned 200 and left the other record in the table.
C6_Witness ==
    \E p \in Req :
        /\ pc[p] = "exit" /\ req[p].op = "deletar" /\ status[p] = 200
        /\ Len(resp[p]) = 1 /\ resp[p][1].ra = req[p].ra
        /\ store # {} /\ req[p].ra \notin RasOf(store)

\* C7 as stated: after a Create of (n, e, r) succeeded, and with no Update
\* or Delete of r since, a Get of r returns exactly n, e and r.
C7_Original ==
    [][\A p \in Req :
          (FirstOf(p, "obter") /\ criado[req[p].ra] # NoBody)
          => /\ status'[p] = 200
             /\ resp'[p] = <<[nome  |-> criado[req[p].ra].nome,
                              email |-> criado[req[p].ra].email,
                              ra    |-> req[p].ra]>>]_vars

\* C7 amended: ... a Get of r returns n, r, and e with its domain part in
\* lower case (e itself when its domain has no upper-case letter).
C7_RoundTrip ==
    [][\A p \in Req :
          (FirstOf(p, "obter") /\ criado[req[p].ra] # NoBody)
          => /\ status'[p] = 200
             /\ resp'[p] = <<[nome  |-> criado[req[p].ra].nome,
                              email |-> DomainLowered(criado[req[p].ra].email),
                              ra    |-> req[p].ra]>>]_vars

\* A Get answered with the record created from an upper-case domain.
C7_Witness ==
    \E p \in Req :
        /\ pc[p] = "exit" /\ req[p].op = "obter" /\ status[p] = 200
        /\ criado[req[p].ra] # NoBody
        /\ criado[req[p].ra].email = <<"B", "@", "X", ".", "c">>
        /\ resp[p][1].email = <<"B", "@", "x", ".", "c">>

\* C8: List returns exactly the stored records, each once with its current
\* name and email, and leaves the table unchanged.
C8_ListIsStore ==
    [][\A p \in Req :
          FirstOf(p, "listar")
          => /\ status'[p] = 200
             /\ Len(resp'[p]) = Cardinality(store)
             /\ \A row \in store :
                  Cardinality({i \in 1..Len(resp'[p]) : resp'[p][i] = Shown(row)}) = 1
             /\ store' = store]_vars

\* A List answered with both records.
C8_Witness ==
    \E p \in Req :
        /\ pc[p] = "exit" /\ req[p].op = "listar" /\ status[p] = 200
        /\ Len(resp[p]) = 2 /\ Cardinality(store) = 2

\* The requests in flight.
InFlight == {p \in Req : pc[p] # "idle"}

\* C9: every request in flight has an open session of its own; a request
\* that is over, however it ended, left no session open and no change
\* pending: the open sessions are exactly those of the requests in flight
\* and only a request not yet released can hold a pending change.
C9_SessionScoped ==
    /\ \A p \in InFlight : sess[p] \in open
    /\ \A p, q \in InFlight : sess[p] = sess[q] => p = q
    /\ open = {sess[p] : p \in InFlight}
    /\ \A s \in SessionIds :
         pending[s] # "none" => \E p \in InFlight : sess[p] = s /\ pc[p] = "exit"
    /\ (InFlight = {}) => (open = {} /\ \A s \in SessionIds : pending[s] = "none")

\* A request ended in an unhandled database fault with its change still in
\* its session, next to another request that holds its own session.
C9_Witness ==
    \E p, q \in Req :
        /\ p # q
        /\ pc[p] = "exit" /\ status[p] = 500 /\ pending[sess[p]] = "dirty"
        /\ pc[q] = "exit" /\ status[q] \in {400, 404}
        /\ sess[q] \in open

\* C10 as stated: under any interleaving every Update and every Delete ends
\* with 200 or 404, and one whose record is deleted by another request
\* between its lookup and its commit or refresh reports 404.
C10_Claim ==
    [][\A p \in Req :
          (pc[p] \in {"commit", "refresh"} /\ req[p].op \in {"atualizar", "deletar"}
              /\ pc'[p] = "exit")
          => /\ status'[p] \in {200, 404}
             /\ (obj[p] \notin store /\ RowById(store, obj[p].id) = NoneRow)
                   => status'[p] = 404]_vars

====
